---- MODULE Spec2Model ----
(***************************************************************************)
(* Model of the image_ffi_project plugin system: the two plugin kernels    *)
(* (blur_plugin, mirror_plugin), the shared status enumeration             *)
(* (plugin_errors) and the host's mapping of a returned status integer     *)
(* (image_processor/src/error.rs).                                         *)
(*                                                                         *)
(* Buffers are sequences of bytes (1-based here, 0-based in the source;    *)
(* every index taken from the source is shifted by one at the point of     *)
(* access).  u32 and usize keep the 64-bit target's relation               *)
(* usize = 2 * u32, scaled down to U32Bits and UsizeBits bits so that a    *)
(* product can be computed before it is compared with the largest word.    *)
(***************************************************************************)
EXTENDS Integers, Sequences, FiniteSets, TLC

\* ---- bounds of the model ------------------------------------------------
MaxDim == 3
MaxRadius == 2
MaxIterations == 2
MaxOps == 3
MaxCode == 60
MaxDiscriminant == 4
U32Bits == 8
UsizeBits == 16

U32_MAX == 2^U32Bits - 1
USIZE_MAX == 2^UsizeBits - 1
None == -1

\* ---- plugin_errors: the shared enumeration --------------------------------
\* #[repr(i32)] enum PluginError { Ok = 0, InvalidParams = 1, NullPointer = 2 }
Discriminant == [Ok |-> 0, InvalidParams |-> 1, NullPointer |-> 2]

DeclaredVariants == DOMAIN Discriminant

\* The variants the kernels name in `PluginError::X as i32`.
ReturnedVariants == {"Ok", "InvalidParams", "NullPointer", "SizeIsTooBig", "Panic"}

\* A variant the enumeration does not declare has no discriminant in the
\* source; whatever declaration completes the build gives it an integer
\* distinct from the declared ones.
UndeclaredCodes == (0..MaxDiscriminant) \ {Discriminant[v] : v \in DeclaredVariants}

\* `PluginError::X as i32`: the set of integers the cast can produce.
as_i32(variant) ==
  IF variant \in DeclaredVariants THEN {Discriminant[variant]} ELSE UndeclaredCodes

PluginError_from_AcceptAll(code) ==
  CASE code = 1 -> "InvalidParams"
    [] code = 2 -> "NullPointer"
    [] OTHER -> "Ok"

\* PluginError::from(code) -> Option<PluginError>; "None" is Option::None.
PluginError_from(code) ==
  CASE code = 0 -> "Ok"
    [] code = 1 -> "InvalidParams"
    [] code = 2 -> "NullPointer"
    [] OTHER -> "None"

\* ---- image_processor: AppError::from_plugin_error_code --------------------
\* Option<AppError>: kind "None" is Option::None (the plugin finished without
\* error); raw is the payload of PluginUnknownErrorCode(i32), 0 otherwise.
AppErr(kind, raw) == [kind |-> kind, raw |-> raw]

from_plugin_error_code(code) ==
  LET plugin_error == PluginError_from(code)
  IN CASE plugin_error = "Ok" -> AppErr("None", 0)
       [] plugin_error = "InvalidParams" -> AppErr("PluginInvalidParams", 0)
       [] plugin_error = "NullPointer" -> AppErr("NullPointer", 0)
       [] plugin_error = "Panic" -> AppErr("PluginPanic", 0)
       [] plugin_error = "None" -> AppErr("PluginUnknownErrorCode", code)

\* ---- parameter text and its decoding --------------------------------------
\* A parameter text is modelled by what serde_json sees in it: whether the
\* text is syntactically JSON, and for each key of interest the JSON value
\* bound to it (or its absence).  Keys a struct does not name are ignored.
JAbsent == [t |-> "absent", n |-> 0]
JNum(n) == [t |-> "num", n |-> n]
JBool(b) == [t |-> "bool", n |-> IF b THEN 1 ELSE 0]
JStr == [t |-> "str", n |-> 0]

\* Deserialize a u32 field: present, a number, within 0..u32::MAX.
is_u32(v) == v.t = "num" /\ v.n >= 0 /\ v.n <= U32_MAX

\* Deserialize a bool field: present and a JSON boolean.
is_bool(v) == v.t = "bool"

from_str_BlurParams_Defaulting(doc) ==
  [ok |-> doc.syntax_ok,
   radius |-> IF is_u32(doc.radius) THEN doc.radius.n ELSE 0,
   iterations |-> IF is_u32(doc.iterations) THEN doc.iterations.n ELSE 0,
   weighted |-> is_bool(doc.weighted) /\ doc.weighted.n = 1]

\* serde_json::from_str::<BlurParams>(text)
from_str_BlurParams(doc) ==
  IF doc.syntax_ok /\ is_u32(doc.radius) /\ is_u32(doc.iterations) /\ is_bool(doc.weighted)
  THEN [ok |-> TRUE, radius |-> doc.radius.n, iterations |-> doc.iterations.n,
        weighted |-> (doc.weighted.n = 1)]
  ELSE [ok |-> FALSE, radius |-> 0, iterations |-> 0, weighted |-> FALSE]

\* serde_json::from_str::<MirrorParams>(text)
from_str_MirrorParams(doc) ==
  IF doc.syntax_ok /\ is_bool(doc.horizontal) /\ is_bool(doc.vertical)
  THEN [ok |-> TRUE, horizontal |-> (doc.horizontal.n = 1), vertical |-> (doc.vertical.n = 1)]
  ELSE [ok |-> FALSE, horizontal |-> FALSE, vertical |-> FALSE]

\* ---- the boundary guard shared by both kernels ----------------------------
is_null_RgbaOnly(rgba_null, params_null) == rgba_null

\* rgba_data.is_null() || params.is_null()
is_null(rgba_null, params_null) == rgba_null \/ params_null

\* usize::checked_mul
checked_mul(a, b) == IF a * b > USIZE_MAX THEN None ELSE a * b

\* (width as usize).checked_mul(height as usize).and_then(|res| res.checked_mul(4))
data_size(width, height) ==
  LET res == checked_mul(width, height)
  IN IF res = None THEN None ELSE checked_mul(res, 4)

\* The value a kernel returns together with the caller's buffer after the call.
Ret(variant, mem) == [status |-> variant, pixels |-> mem]

\* The guarded body did not return: it panicked, leaving the buffer as mem.
Unwind(mem) == [status |-> "unwind", pixels |-> mem]

match_result_ErrIsOk(r) == IF r.status = "unwind" THEN "Ok" ELSE r.status

\* match result { Ok(status) => status, Err(e) => PluginError::Panic as i32 }
match_result(r) == IF r.status = "unwind" THEN "Panic" ELSE r.status

\* ---- mirror_plugin: the pixel algorithms ----------------------------------
swap_Overwrite(s, a, b) == [s EXCEPT ![b + 1] = s[a + 1]]

\* slice::swap(a, b), a and b 0-based as in the source
swap(s, a, b) == [s EXCEPT ![a + 1] = s[b + 1], ![b + 1] = s[a + 1]]

\* for i in 0..4 { row.swap(left_idx + i, right_idx + i) }
RECURSIVE swap_pixel(_, _, _, _)
swap_pixel(row, left_idx, right_idx, i) ==
  IF i >= 4 THEN row
  ELSE swap_pixel(swap(row, left_idx + i, right_idx + i), left_idx, right_idx, i + 1)

mirror_columns_bound_Full(width) == width

\* the exclusive upper bound of `for x in 0..(width / 2)`
mirror_columns_bound(width) == width \div 2

\* for x in 0..(width / 2) { left_idx = x * 4; right_idx = (width - 1 - x) * 4; ... }
RECURSIVE mirror_row(_, _, _)
mirror_row(row, width, x) ==
  IF x >= mirror_columns_bound(width) THEN row
  ELSE mirror_row(swap_pixel(row, x * 4, (width - 1 - x) * 4, 0), width, x + 1)

\* for y in 0..height { row = &mut pixels[row_start..row_end]; ... }
RECURSIVE mirror_horizontal_rows(_, _, _, _)
mirror_horizontal_rows(width, height, pixels, y) ==
  IF y >= height THEN pixels
  ELSE LET row_start == y * width * 4
           row_end == row_start + width * 4
           row == SubSeq(pixels, row_start + 1, row_end)
       IN mirror_horizontal_rows(width, height,
             SubSeq(pixels, 1, row_start) \o mirror_row(row, width, 0)
               \o SubSeq(pixels, row_end + 1, Len(pixels)),
             y + 1)

mirror_horizontal(width, height, pixels) == mirror_horizontal_rows(width, height, pixels, 0)

\* for i in 0..row_size { pixels.swap(top_row_idx + i, bottom_row_idx + i) }
RECURSIVE swap_rows(_, _, _, _, _)
swap_rows(pixels, top_row_idx, bottom_row_idx, row_size, i) ==
  IF i >= row_size THEN pixels
  ELSE swap_rows(swap(pixels, top_row_idx + i, bottom_row_idx + i),
                 top_row_idx, bottom_row_idx, row_size, i + 1)

\* for y in 0..(height / 2) { top_row_idx = y * row_size; ... }
RECURSIVE mirror_vertical_rows(_, _, _, _)
mirror_vertical_rows(width, height, pixels, y) ==
  IF y >= height \div 2 THEN pixels
  ELSE LET row_size == width * 4
           top_row_idx == y * row_size
           bottom_row_idx == (height - 1 - y) * row_size
       IN mirror_vertical_rows(width, height,
             swap_rows(pixels, top_row_idx, bottom_row_idx, row_size, 0), y + 1)

mirror_vertical(width, height, pixels) == mirror_vertical_rows(width, height, pixels, 0)

\* mirror_plugin: the guarded body of process_image
mirror_process_image_LazyDecode(width, height, rgba_null, params_null, params, mem) ==
  IF is_null(rgba_null, params_null) THEN Ret("NullPointer", mem)
  ELSE IF ~(params.syntax_ok /\ is_bool(params.horizontal)) THEN Ret("InvalidParams", mem)
  ELSE IF data_size(width, height) = None THEN Ret("SizeIsTooBig", mem)
  ELSE LET pixels == SubSeq(mem, 1, data_size(width, height))
           rest == SubSeq(mem, data_size(width, height) + 1, Len(mem))
           h == IF params.horizontal.n = 1 THEN mirror_horizontal(width, height, pixels)
                ELSE pixels
       IN IF ~is_bool(params.vertical) THEN Ret("InvalidParams", h \o rest)
          ELSE Ret("Ok", (IF params.vertical.n = 1 THEN mirror_vertical(width, height, h)
                          ELSE h) \o rest)

mirror_process_image(width, height, rgba_null, params_null, params, mem) ==
  IF is_null(rgba_null, params_null) THEN Ret("NullPointer", mem)
  ELSE LET config == from_str_MirrorParams(params)
       IN IF ~config.ok THEN Ret("InvalidParams", mem)
          ELSE IF data_size(width, height) = None THEN Ret("SizeIsTooBig", mem)
          ELSE LET pixels == SubSeq(mem, 1, data_size(width, height))
                   h == IF config.horizontal THEN mirror_horizontal(width, height, pixels)
                        ELSE pixels
                   v == IF config.vertical THEN mirror_vertical(width, height, h) ELSE h
               IN Ret("Ok", v \o SubSeq(mem, data_size(width, height) + 1, Len(mem)))

\* ---- blur_plugin: the pixel algorithms ------------------------------------
\* A sequence given by a rule, with every element computed once (a Vec).
Vec(s) == SubSeq(s, 1, Len(s))

RECURSIVE SumSeq(_)
SumSeq(s) == IF s = <<>> THEN 0 ELSE Head(s) + SumSeq(Tail(s))

\* The offsets (ky, kx) of the square of side 2 * radius + 1, ky outermost, in
\* the order `for ky in -r..=r { for kx in -r..=r` visits them.
square_offsets(radius) ==
  LET size == 2 * radius + 1
  IN [k \in 1..(size * size) |->
        [ky |-> ((k - 1) \div size) - radius, kx |-> ((k - 1) % size) - radius]]

\* ky >= 0 && ky < height && kx >= 0 && kx < width
in_bounds(kx, ky, width, height) == ky >= 0 /\ ky < height /\ kx >= 0 /\ kx < width

\* The source indices `idx` box blur accumulates for output pixel (x, y).
\* Offsets farther than the image's larger side fail the bounds test for every
\* pixel, so the window is enumerated up to that distance only.
box_samples(x, y, width, height, radius) ==
  LET side == IF width > height THEN width ELSE height
      offs == square_offsets(IF radius > side THEN side ELSE radius)
      hit == SelectSeq(offs, LAMBDA o : in_bounds(x + o.kx, y + o.ky, width, height))
  IN Vec([k \in 1..Len(hit) |-> ((y + hit[k].ky) * width + (x + hit[k].kx)) * 4])

box_channel_Rounded(src, idxs, c) ==
  LET acc == SumSeq([k \in 1..Len(idxs) |-> src[idxs[k] + c + 1]])
      count == Len(idxs)
  IN (2 * acc + count) \div (2 * count)

\* dst[out_idx + c] = (acc / count) as u8 for channel c of r, g, b, the
\* accumulators summed over the source indices idxs
box_channel(src, idxs, c) ==
  LET acc == SumSeq([k \in 1..Len(idxs) |-> src[idxs[k] + c + 1]])
      count == Len(idxs)
  IN acc \div count

box_alpha_Unwritten(src, dst, out_idx) == dst[out_idx + 3 + 1]

\* dst[out_idx + 3] = src[out_idx + 3]
box_alpha(src, dst, out_idx) == src[out_idx + 3 + 1]

\* The 4 bytes box blur writes at out_idx = (y * width + x) * 4.
box_pixel(width, height, src, dst, radius, x, y) ==
  LET idxs == box_samples(x, y, width, height, radius)
  IN <<box_channel(src, idxs, 0), box_channel(src, idxs, 1), box_channel(src, idxs, 2),
       box_alpha(src, dst, (y * width + x) * 4)>>

apply_box_blur(width, height, src, dst, radius) ==
  LET written == Vec([q \in 1..(width * height) |->
                        box_pixel(width, height, src, dst, radius,
                                  (q - 1) % width, (q - 1) \div width)])
  IN Vec([o \in 1..Len(dst) |->
            LET p == (o - 1) \div 4
            IN IF p >= width * height THEN dst[o] ELSE written[p + 1][((o - 1) % 4) + 1]])

\* f32 arithmetic is carried in fixed point: a kernel weight w is held as the
\* integer nearest below w * 10^4.
\* e^(num/den) * 10^6 by the power series, each term derived from the last.
RECURSIVE exp_series(_, _, _, _, _)
exp_series(num, den, n, term, acc) ==
  IF term = 0 THEN acc
  ELSE exp_series(num, den, n + 1, (term * num) \div (den * n), acc + term)

\* (-(dist_sq / (2.0 * sigma * sigma))).exp() with sigma = radius / 2.0, so
\* the exponent is -(2 * dist_sq) / radius^2; radius >= 1.
kernel_weight(kx, ky, radius) ==
  LET dist_sq == kx * kx + ky * ky
      e == exp_series(2 * dist_sq, radius * radius, 1, 10 ^ 6, 0)
  IN (10 ^ 9) \div (e \div 10)

\* kernel[((ky + radius_i) * size) + (kx + radius_i)], before normalisation;
\* slot k of the source is element k + 1 here.
weight_kernel(radius) ==
  LET size == 2 * radius + 1
  IN Vec([k \in 1..(size * size) |->
            kernel_weight(((k - 1) % size) - radius, ((k - 1) \div size) - radius, radius)])

\* isize::clamp
clamp(v, lo, hi) == IF v < lo THEN lo ELSE IF v > hi THEN hi ELSE v

\* the inclusive upper bound of the inner loop `for kx in -radius_i..=ky`
weighted_kx_upper(ky, radius_i) == ky

\* The samples one output pixel (x, y) accumulates, in loop order: the offset,
\* the clamped source coordinate, the kernel slot and the source index.
weighted_samples(x, y, width, height, radius) ==
  LET size == 2 * radius + 1
      offs == SelectSeq(square_offsets(radius),
                        LAMBDA o : o.kx <= weighted_kx_upper(o.ky, radius))
  IN Vec([k \in 1..Len(offs) |->
            LET py == clamp(y + offs[k].ky, 0, height - 1)
                px == clamp(x + offs[k].kx, 0, width - 1)
            IN [ky |-> offs[k].ky, kx |-> offs[k].kx, py |-> py, px |-> px,
                slot |-> ((offs[k].ky + radius) * size) + (offs[k].kx + radius),
                idx |-> (py * width + px) * 4]])

\* dst[out_idx + c] = acc.round() as u8, acc the sum of src * normalised
\* weight over the samples (the division by the kernel's sum is done once, on
\* the accumulated value).  With radius = 0 sigma is 0, every weight is NaN
\* and `NaN as u8` is 0.
weighted_channel(src, radius, kernel, sum, samples_xy, c) ==
  IF radius = 0 THEN 0
  ELSE LET acc == SumSeq([k \in 1..Len(samples_xy) |->
                            src[samples_xy[k].idx + c + 1] * kernel[samples_xy[k].slot + 1]])
           rounded == (2 * acc + sum) \div (2 * sum)
       IN IF rounded > 255 THEN 255 ELSE rounded

\* The 4 bytes weighted blur writes at out_idx = (y * width + x) * 4.
weighted_pixel(width, height, src, radius, kernel, sum, x, y) ==
  LET samples_xy == weighted_samples(x, y, width, height, radius)
  IN <<weighted_channel(src, radius, kernel, sum, samples_xy, 0),
       weighted_channel(src, radius, kernel, sum, samples_xy, 1),
       weighted_channel(src, radius, kernel, sum, samples_xy, 2),
       src[(y * width + x) * 4 + 3 + 1]>>

apply_weighted_blur(width, height, src, dst, radius) ==
  LET kernel == IF radius = 0 THEN <<>> ELSE weight_kernel(radius)
      sum == SumSeq(kernel)
      written == Vec([q \in 1..(width * height) |->
                        weighted_pixel(width, height, src, radius, kernel, sum,
                                       (q - 1) % width, (q - 1) \div width)])
  IN Vec([o \in 1..Len(dst) |->
            LET p == (o - 1) \div 4
            IN IF p >= width * height THEN dst[o] ELSE written[p + 1][((o - 1) % 4) + 1]])

\* for _ in 0..config.iterations { blur(pixels, &mut buffer); pixels.copy_from_slice(&buffer) }
RECURSIVE blur_iterations(_, _, _, _, _, _)
blur_iterations(width, height, pixels, buffer, config, i) ==
  IF i >= config.iterations THEN pixels
  ELSE LET out == IF config.weighted
                  THEN apply_weighted_blur(width, height, pixels, buffer, config.radius)
                  ELSE apply_box_blur(width, height, pixels, buffer, config.radius)
       IN blur_iterations(width, height, out, out, config, i + 1)

ISIZE_MAX == 2^(UsizeBits - 1) - 1

\* let size = radius * 2 + 1; let mut kernel = vec![0.0f32; size * size];
\* size * size overflows usize (a panic where overflow is checked; where it
\* wraps, the shortened kernel is indexed out of bounds while it is filled),
\* or the kernel's byte length exceeds isize::MAX (capacity overflow).
weighted_kernel_panics(radius) ==
  LET size == radius * 2 + 1
  IN size * size > USIZE_MAX \/ size * size * 4 > ISIZE_MAX

blur_is_noop_IterationsOnly(config) == config.iterations = 0

\* config.radius == 0 || config.iterations == 0
blur_is_noop(config) == config.radius = 0 \/ config.iterations = 0

\* blur_plugin: the guarded body of process_image
blur_process_image(width, height, rgba_null, params_null, params, mem) ==
  IF is_null(rgba_null, params_null) THEN Ret("NullPointer", mem)
  ELSE LET config == from_str_BlurParams(params)
       IN IF ~config.ok THEN Ret("InvalidParams", mem)
          ELSE IF blur_is_noop(config) THEN Ret("Ok", mem)
          ELSE IF data_size(width, height) = None THEN Ret("SizeIsTooBig", mem)
          ELSE LET pixels == SubSeq(mem, 1, data_size(width, height))
                   buffer == Vec([o \in 1..Len(pixels) |-> 0])
               IN IF config.weighted /\ weighted_kernel_panics(config.radius)
                  THEN Unwind(mem)
                  ELSE Ret("Ok", blur_iterations(width, height, pixels, buffer, config, 0)
                                   \o SubSeq(mem, data_size(width, height) + 1, Len(mem)))

\* ---- inputs ---------------------------------------------------------------
\* blur_plugin tests: create_test_image(width, height, fill_color)
uniform_image(n, fill) == [i \in 1..n |-> fill]

\* blur_plugin tests: rgba_data[i] = (i & 0xff), generalised to a step per byte
gradient_image(n, step) == [i \in 1..n |-> ((i - 1) * step) % 256]

\* mirror_plugin tests: create_test_image(width, height): (x, y, 0, 255)
xy_image(w, h) ==
  [i \in 1..(w * h * 4) |->
     LET p == (i - 1) \div 4
         c == (i - 1) % 4
     IN CASE c = 0 -> p % w
          [] c = 1 -> p \div w
          [] c = 2 -> 0
          [] c = 3 -> 255]

FillColors == {0, 200}
Steps == {1, 37}

Images(w, h) ==
  {uniform_image(w * h * 4, f) : f \in FillColors}
    \cup {gradient_image(w * h * 4, st) : st \in Steps}
    \cup {xy_image(w, h)}

SmallDims == 0..MaxDim
BigDims == {U32_MAX \div 2 + 2, U32_MAX}

\* The (width, height) a caller passes: small ones, for which the caller owns
\* a buffer of width * height * 4 bytes, and ones whose byte count overflows.
DimPairs == (SmallDims \X SmallDims) \cup (BigDims \X BigDims)

\* What rgba_data points to: nothing when null, width * height * 4 bytes when
\* that is a size, and the 4 bytes of test_size_too_big when it is not.
Buffers(w, h, null) ==
  IF null THEN {<<>>}
  ELSE IF data_size(w, h) = None THEN {<<0, 0, 0, 0>>}
  ELSE Images(w, h)

U32FieldValues(max) == {JAbsent, JBool(TRUE), JNum(-1), JNum(U32_MAX + 1)} \cup {JNum(n) : n \in 0..max}
BoolFieldValues == {JAbsent, JNum(1), JBool(TRUE), JBool(FALSE)}

BlurDocs ==
  [syntax_ok : BOOLEAN, radius : U32FieldValues(MaxRadius) \cup {JNum(U32_MAX)},
   iterations : U32FieldValues(MaxIterations), weighted : BoolFieldValues,
   horizontal : {JAbsent}, vertical : {JAbsent}]

MirrorDocs ==
  [syntax_ok : BOOLEAN, radius : {JAbsent}, iterations : {JAbsent}, weighted : {JAbsent},
   horizontal : BoolFieldValues, vertical : BoolFieldValues]

\* No text: what `params` holds when the pointer is null.
NoDoc ==
  [syntax_ok |-> FALSE, radius |-> JAbsent, iterations |-> JAbsent, weighted |-> JAbsent,
   horizontal |-> JAbsent, vertical |-> JAbsent]

Docs(kernel, null) ==
  IF null THEN {NoDoc} ELSE IF kernel = "blur" THEN BlurDocs ELSE MirrorDocs

\* ---- state ----------------------------------------------------------------
VARIABLES
  plugin,       \* the kernel whose process_image is called: "blur" or "mirror"
  width,        \* argument width: u32
  height,       \* argument height: u32
  rgba_null,    \* rgba_data.is_null()
  params_null,  \* params.is_null()
  params,       \* the text params points to
  orig,         \* the bytes rgba_data points to before the first operation
  pixels,       \* the bytes rgba_data points to now
  status,       \* the PluginError variant process_image returned, or "none"
  code,         \* the i32 process_image returned, or None
  outcome,      \* the host's Option<AppError> for code
  pc,           \* "call", "returned", "mapped"; or the name of a function-level run
  ops,          \* the pixel functions applied so far, in order
  radius,       \* the radius argument of the blur passes
  samples,      \* per output pixel, the samples the last weighted pass accumulated
  unwound,      \* whether the guarded body of the last call ended in a panic
  host          \* the host run: what main has done so far and how it ended

vars ==
  <<plugin, width, height, rgba_null, params_null, params, orig, pixels, status, code,
    outcome, pc, ops, radius, samples, unwound, host>>

NoOutcome == AppErr("unmapped", 0)

\* main before its first statement: nothing checked, loaded, called or written.
HostStart ==
  [checked |-> FALSE, located |-> FALSE, loaded |-> FALSE, resolved |-> FALSE,
   calls |-> 0, saved |-> FALSE, result |-> "running"]

\* ---- a call of process_image and the host's mapping of its result ----------
Init ==
  /\ plugin \in {"blur", "mirror"}
  /\ rgba_null \in BOOLEAN
  /\ params_null \in BOOLEAN
  /\ params \in Docs(plugin, params_null)
  /\ \E d \in DimPairs : width = d[1] /\ height = d[2]
  /\ orig \in Buffers(width, height, rgba_null)
  /\ pixels = orig
  /\ status = "none"
  /\ code = None
  /\ outcome = NoOutcome
  /\ pc = "call"
  /\ ops = <<>>
  /\ radius = 0
  /\ samples = <<>>
  /\ unwound = FALSE
  /\ host = HostStart

ProcessImageBlur ==
  /\ pc = "call"
  /\ plugin = "blur"
  /\ LET r == blur_process_image(width, height, rgba_null, params_null, params, pixels)
     IN /\ pixels' = r.pixels
        /\ unwound' = (r.status = "unwind")
        /\ status' = match_result(r)
        /\ code' \in as_i32(match_result(r))
  /\ host' = [host EXCEPT !.calls = @ + 1]
  /\ pc' = "returned"
  /\ UNCHANGED <<plugin, width, height, rgba_null, params_null, params, orig, outcome,
                 ops, radius, samples>>

ProcessImageMirror ==
  /\ pc = "call"
  /\ plugin = "mirror"
  /\ LET r == mirror_process_image(width, height, rgba_null, params_null, params, pixels)
     IN /\ pixels' = r.pixels
        /\ unwound' = (r.status = "unwind")
        /\ status' = match_result(r)
        /\ code' \in as_i32(match_result(r))
  /\ host' = [host EXCEPT !.calls = @ + 1]
  /\ pc' = "returned"
  /\ UNCHANGED <<plugin, width, height, rgba_null, params_null, params, orig, outcome,
                 ops, radius, samples>>

\* main: if let Some(error) = AppError::from_plugin_error_code(error_code)
MapErrorCode ==
  /\ pc = "returned"
  /\ outcome' = from_plugin_error_code(code)
  /\ pc' = "mapped"
  /\ UNCHANGED <<plugin, width, height, rgba_null, params_null, params, orig, pixels,
                 status, code, ops, radius, samples, unwound, host>>

Next == ProcessImageBlur \/ ProcessImageMirror \/ MapErrorCode

Spec == Init /\ [][Next]_vars

\* ---- a run of the host's main ------------------------------------------------
\* Each statement of main that can fail either fails, ending the run with an
\* error, or succeeds; which of the two is the environment's choice (the file
\* system, the dynamic loader, the image codec).
InitHost ==
  /\ plugin \in {"blur", "mirror"}
  /\ rgba_null = FALSE
  /\ params_null = FALSE
  /\ params = NoDoc
  /\ width = 0
  /\ height = 0
  /\ orig = <<>>
  /\ pixels = <<>>
  /\ status = "none"
  /\ code = None
  /\ outcome = NoOutcome
  /\ pc = "main"
  /\ ops = <<>>
  /\ radius = 0
  /\ samples = <<>>
  /\ unwound = FALSE
  /\ host = HostStart

\* `?` on an Err: main returns the error.
Fail ==
  /\ host' = [host EXCEPT !.result = "Err"]
  /\ pc' = "exit"

\* args.check_basic_paths_exists()?
CheckBasicPaths ==
  /\ pc = "main"
  /\ \/ Fail
     \/ /\ host' = [host EXCEPT !.checked = TRUE]
        /\ pc' = "paths_checked"
  /\ UNCHANGED <<plugin, width, height, rgba_null, params_null, params, orig, pixels,
                 status, code, outcome, ops, radius, samples, unwound>>

\* args.plugin_file()?
PluginFile ==
  /\ pc = "paths_checked"
  /\ \/ Fail
     \/ /\ host' = [host EXCEPT !.located = TRUE]
        /\ pc' = "located"
  /\ UNCHANGED <<plugin, width, height, rgba_null, params_null, params, orig, pixels,
                 status, code, outcome, ops, radius, samples, unwound>>

\* Plugin::new(plugin_file)?
PluginNew ==
  /\ pc = "located"
  /\ \/ Fail
     \/ /\ host' = [host EXCEPT !.loaded = TRUE]
        /\ pc' = "loaded"
  /\ UNCHANGED <<plugin, width, height, rgba_null, params_null, params, orig, pixels,
                 status, code, outcome, ops, radius, samples, unwound>>

\* plugin_lib.interface()?
Interface ==
  /\ pc = "loaded"
  /\ \/ Fail
     \/ /\ host' = [host EXCEPT !.resolved = TRUE]
        /\ pc' = "resolved"
  /\ UNCHANGED <<plugin, width, height, rgba_null, params_null, params, orig, pixels,
                 status, code, outcome, ops, radius, samples, unwound>>

\* image::open(&args.input)?; img.dimensions(); img.to_rgba8()
OpenImage ==
  /\ pc = "resolved"
  /\ \/ /\ Fail
        /\ UNCHANGED <<width, height, orig, pixels>>
     \/ /\ width' \in 1..MaxDim
        /\ height' \in 1..MaxDim
        /\ orig' \in Images(width', height')
        /\ pixels' = orig'
        /\ pc' = "opened"
        /\ UNCHANGED host
  /\ UNCHANGED <<plugin, rgba_null, params_null, params, status, code, outcome, ops,
                 radius, samples, unwound>>

\* fs::read_to_string(&args.params)?; CString::new(params_content)?
ReadParams ==
  /\ pc = "opened"
  /\ \/ /\ Fail
        /\ UNCHANGED params
     \/ /\ params' \in Docs(plugin, FALSE)
        /\ pc' = "call"
        /\ UNCHANGED host
  /\ UNCHANGED <<plugin, width, height, rgba_null, params_null, orig, pixels, status, code,
                 outcome, ops, radius, samples, unwound>>

call_failed_Never(mapped) == FALSE

\* if let Some(error) = AppError::from_plugin_error_code(error_code)
call_failed(mapped) == mapped.kind # "None"

\* return Err(error.into())
ReturnPluginError ==
  /\ pc = "mapped"
  /\ call_failed(outcome)
  /\ Fail
  /\ UNCHANGED <<plugin, width, height, rgba_null, params_null, params, orig, pixels,
                 status, code, outcome, ops, radius, samples, unwound>>

\* rgba_data.save(&args.output)?; println!(..); Ok(())
Save ==
  /\ pc = "mapped"
  /\ ~call_failed(outcome)
  /\ \E saved_ok \in BOOLEAN :
        host' = [host EXCEPT !.saved = TRUE, !.result = IF saved_ok THEN "Ok" ELSE "Err"]
  /\ pc' = "exit"
  /\ UNCHANGED <<plugin, width, height, rgba_null, params_null, params, orig, pixels,
                 status, code, outcome, ops, radius, samples, unwound>>

NextHost ==
  \/ CheckBasicPaths \/ PluginFile \/ PluginNew \/ Interface \/ OpenImage \/ ReadParams
  \/ ProcessImageBlur \/ ProcessImageMirror \/ MapErrorCode
  \/ ReturnPluginError \/ Save

SpecHost == InitHost /\ [][NextHost]_vars

\* ---- the host's mapping applied to any returned integer --------------------
InitHostMap ==
  /\ plugin = "foreign"
  /\ rgba_null = FALSE
  /\ params_null = FALSE
  /\ params = NoDoc
  /\ width = 0
  /\ height = 0
  /\ orig = <<>>
  /\ pixels = <<>>
  /\ status = "none"
  /\ code \in (0 - MaxCode)..MaxCode
  /\ outcome = NoOutcome
  /\ pc = "returned"
  /\ ops = <<>>
  /\ radius = 0
  /\ samples = <<>>
  /\ unwound = FALSE
  /\ host = HostStart

NextHostMap == MapErrorCode

SpecHostMap == InitHostMap /\ [][NextHostMap]_vars

\* ---- the mirror functions applied to a buffer -------------------------------
InitPure ==
  /\ plugin = "none"
  /\ rgba_null = FALSE
  /\ params_null = FALSE
  /\ params = NoDoc
  /\ width \in SmallDims
  /\ height \in SmallDims
  /\ orig \in Images(width, height)
  /\ pixels = orig
  /\ status = "none"
  /\ code = None
  /\ outcome = NoOutcome
  /\ ops = <<>>
  /\ samples = <<>>
  /\ unwound = FALSE
  /\ host = HostStart

InitMirror == InitPure /\ pc = "mirror" /\ radius = 0

MirrorHorizontal ==
  /\ pc = "mirror"
  /\ Len(ops) < MaxOps
  /\ pixels' = mirror_horizontal(width, height, pixels)
  /\ ops' = Append(ops, "horizontal")
  /\ UNCHANGED <<plugin, width, height, rgba_null, params_null, params, orig, status, code,
                 outcome, pc, radius, samples, unwound, host>>

MirrorVertical ==
  /\ pc = "mirror"
  /\ Len(ops) < MaxOps
  /\ pixels' = mirror_vertical(width, height, pixels)
  /\ ops' = Append(ops, "vertical")
  /\ UNCHANGED <<plugin, width, height, rgba_null, params_null, params, orig, status, code,
                 outcome, pc, radius, samples, unwound, host>>

NextMirror == MirrorHorizontal \/ MirrorVertical

SpecMirror == InitMirror /\ [][NextMirror]_vars

\* ---- the blur passes applied to a buffer ------------------------------------
InitBlurPass == InitPure /\ pc = "blur_pass" /\ radius \in 0..MaxRadius

\* let mut buffer = vec![0u8; pixels.len()]
scratch(n) == Vec([o \in 1..n |-> 0])

ApplyBoxBlur ==
  /\ pc = "blur_pass"
  /\ Len(ops) < MaxOps
  /\ pixels' = apply_box_blur(width, height, pixels, scratch(Len(pixels)), radius)
  /\ ops' = Append(ops, "box")
  /\ UNCHANGED <<plugin, width, height, rgba_null, params_null, params, orig, status, code,
                 outcome, pc, radius, samples, unwound, host>>

ApplyWeightedBlur ==
  /\ pc = "blur_pass"
  /\ Len(ops) < MaxOps
  /\ pixels' = apply_weighted_blur(width, height, pixels, scratch(Len(pixels)), radius)
  /\ samples' = [p \in 0..(width * height - 1) |->
                   weighted_samples(p % width, p \div width, width, height, radius)]
  /\ ops' = Append(ops, "weighted")
  /\ UNCHANGED <<plugin, width, height, rgba_null, params_null, params, orig, status, code,
                 outcome, pc, radius, unwound, host>>

NextBlurPass == ApplyBoxBlur \/ ApplyWeightedBlur

SpecBlurPass == InitBlurPass /\ [][NextBlurPass]_vars

\* ==== claims ================================================================

\* What the claims say of a parameter text, stated on the text itself.
KnownCodes == {Discriminant[v] : v \in DeclaredVariants}

IsU32Text(v) == v.t = "num" /\ v.n \in 0..U32_MAX

WellFormedText(kernel, doc) ==
  /\ doc.syntax_ok
  /\ kernel = "blur" =>
       IsU32Text(doc.radius) /\ IsU32Text(doc.iterations) /\ doc.weighted.t = "bool"
  /\ kernel = "mirror" => doc.horizontal.t = "bool" /\ doc.vertical.t = "bool"

Returned == pc \in {"returned", "mapped"}

NonNullCall == Returned /\ ~rgba_null /\ ~params_null

Overflows == data_size(width, height) = None

\* C1: for both kernels, a call whose image pointer or parameter pointer is
\* null returns the null-pointer status code, whatever the dimensions and the
\* other pointer's contents.
C1_NullPointerReturned ==
  (Returned /\ (rgba_null \/ params_null)) =>
     (status = "NullPointer" /\ code = Discriminant.NullPointer)

C1_Witness ==
  /\ pc = "returned"
  /\ plugin = "blur"
  /\ rgba_null /\ ~params_null
  /\ ~params.syntax_ok
  /\ width = U32_MAX /\ height = U32_MAX
  /\ status = "NullPointer"

\* C2: for both kernels, a call with non-null pointers and a well-formed
\* configuration, whatever its fields, whose width * height * 4 overflows the
\* machine word returns size-too-large.
C2_OverflowReturnsSizeTooBig ==
  (NonNullCall /\ WellFormedText(plugin, params) /\ Overflows) => status = "SizeIsTooBig"

\* C3: for both kernels, a call with non-null pointers whose parameter text
\* fails to decode (syntax error, missing field, wrong field type) returns the
\* invalid-parameters status code, for every width and height.
C3_MalformedReturnsInvalidParams ==
  (NonNullCall /\ ~WellFormedText(plugin, params)) =>
     (status = "InvalidParams" /\ code = Discriminant.InvalidParams)

C3_Witness ==
  /\ pc = "returned"
  /\ plugin = "mirror"
  /\ ~rgba_null /\ ~params_null
  /\ params.syntax_ok /\ params.horizontal = JBool(TRUE) /\ params.vertical = JAbsent
  /\ Overflows
  /\ status = "InvalidParams"

\* C4: for every valid call to the blur kernel with radius == 0 or
\* iterations == 0, whatever weighted is, process_image returns success and
\* leaves every byte of the buffer as it was.
C4_NoopLeavesBuffer ==
  (/\ NonNullCall
   /\ plugin = "blur"
   /\ WellFormedText("blur", params)
   /\ ~Overflows
   /\ Len(orig) = data_size(width, height)
   /\ (params.radius.n = 0 \/ params.iterations.n = 0))
  => (status = "Ok" /\ code = Discriminant.Ok /\ pixels = orig)

C4_Witness ==
  /\ pc = "returned"
  /\ plugin = "blur"
  /\ ~rgba_null /\ ~params_null
  /\ params.syntax_ok
  /\ params.radius = JNum(0) /\ params.iterations = JNum(2) /\ params.weighted = JBool(TRUE)
  /\ width = 2 /\ height = 3
  /\ orig = gradient_image(24, 37)
  /\ status = "Ok" /\ pixels = orig

\* C5: applying the horizontal mirror twice in succession leaves the buffer
\* equal to its original contents, and so does applying the vertical mirror
\* twice, for every width, height and buffer of width * height * 4 bytes.
C5_MirrorTwiceIsIdentity ==
  (ops = <<"horizontal", "horizontal">> \/ ops = <<"vertical", "vertical">>) => pixels = orig

C5_Witness ==
  /\ ops = <<"horizontal", "horizontal">>
  /\ width = 3 /\ height = 2
  /\ orig = xy_image(3, 2)
  /\ mirror_horizontal(width, height, orig) # orig
  /\ pixels = orig

\* The byte of channel i of the pixel at (x, y) of buffer b, width w.
ByteAt(b, w, x, y, i) == b[(y * w + x) * 4 + i + 1]

\* C6: after mirror_horizontal the 4 bytes of the pixel at (x, y) are those the
\* input held at (width-1-x, y); after mirror_vertical they are those the input
\* held at (x, height-1-y); so a middle column or row and an axis of size 1
\* are left unchanged.
C6_MirrorReflectsPixels ==
  /\ Len(pixels) = Len(orig)
  /\ ops = <<"horizontal">> =>
       \A x \in 0..(width - 1), y \in 0..(height - 1), i \in 0..3 :
          ByteAt(pixels, width, x, y, i) = ByteAt(orig, width, width - 1 - x, y, i)
  /\ ops = <<"vertical">> =>
       \A x \in 0..(width - 1), y \in 0..(height - 1), i \in 0..3 :
          ByteAt(pixels, width, x, y, i) = ByteAt(orig, width, x, height - 1 - y, i)

C6_Witness ==
  /\ ops = <<"horizontal">>
  /\ width = 3 /\ height = 2
  /\ orig = xy_image(3, 2)
  /\ pixels # orig
  /\ \A y \in 0..1, i \in 0..3 : ByteAt(pixels, 3, 1, y, i) = ByteAt(orig, 3, 1, y, i)

\* C7: after any successful box-blur call (weighted == false), for every
\* radius and iterations count, the alpha byte of every pixel equals the alpha
\* byte that pixel had before the call.
C7_BoxBlurKeepsAlpha ==
  (/\ NonNullCall
   /\ plugin = "blur"
   /\ WellFormedText("blur", params)
   /\ params.weighted = JBool(FALSE)
   /\ status = "Ok")
  => /\ Len(pixels) = Len(orig)
     /\ \A p \in 0..((Len(orig) \div 4) - 1) : pixels[p * 4 + 4] = orig[p * 4 + 4]

C7_Witness ==
  /\ pc = "returned"
  /\ plugin = "blur"
  /\ ~rgba_null /\ ~params_null
  /\ params.syntax_ok
  /\ params.radius = JNum(1) /\ params.iterations = JNum(2) /\ params.weighted = JBool(FALSE)
  /\ width = 2 /\ height = 2
  /\ orig = gradient_image(16, 37)
  /\ status = "Ok"
  /\ pixels # orig
  /\ \A p \in 0..3 : pixels[p * 4 + 4] = orig[p * 4 + 4]

\* C8: the host's mapping of a returned status integer yields the success
\* outcome only for the success code, and every integer outside the known
\* enumeration yields the unknown-plugin-error failure carrying that integer.
C8_UnknownCodeIsFailure ==
  pc = "mapped" =>
     /\ outcome.kind = "None" => code = Discriminant.Ok
     /\ code \notin KnownCodes => outcome = AppErr("PluginUnknownErrorCode", code)

C8_Witness ==
  /\ pc = "mapped"
  /\ code = 0 - 7
  /\ outcome = AppErr("PluginUnknownErrorCode", 0 - 7)

\* C9: in every weighted-blur pass with radius r >= 1, every output pixel
\* accumulates exactly the (2r+1)^2 samples of the full square of offsets
\* (dx, dy), dx and dy in [-r, +r], each from the source pixel at the clamped
\* coordinate and weighted by the kernel entry for (dx, dy).
C9_WeightedSamplesFullSquare ==
  radius >= 1 =>
    \A p \in DOMAIN samples :
       LET s == samples[p]
           x == p % width
           y == p \div width
       IN /\ Len(s) = (2 * radius + 1) * (2 * radius + 1)
          /\ {<<s[k].kx, s[k].ky>> : k \in 1..Len(s)}
               = ((0 - radius)..radius) \X ((0 - radius)..radius)
          /\ \A k \in 1..Len(s) :
                /\ s[k].px = clamp(x + s[k].kx, 0, width - 1)
                /\ s[k].py = clamp(y + s[k].ky, 0, height - 1)
                /\ s[k].idx = (s[k].py * width + s[k].px) * 4
                /\ s[k].slot = (s[k].ky + radius) * (2 * radius + 1) + (s[k].kx + radius)

\* C10: every status a kernel's process_image returns is a member of the
\* shared enumeration with its own integer, the enumeration's decoding
\* recognises it, and the host maps each failure kind to its own typed failure
\* rather than to the unknown-code outcome.
C10_ReturnedStatusInEnumeration ==
  pc = "mapped" =>
     /\ status \in DeclaredVariants
     /\ PluginError_from(code) = status
     /\ status # "Ok" => outcome.kind \notin {"None", "PluginUnknownErrorCode"}

\* C11: every call to a kernel's process_image returns a status code; when a
\* step inside the guarded body terminates abnormally the call returns the
\* internal-fault status code, and the abnormal termination does not pass
\* the exported entry point.
C11_PanicBecomesInternalFault ==
  Returned =>
     /\ status \in ReturnedVariants
     /\ code \in as_i32(status)
     /\ unwound => status = "Panic"

C11_Witness ==
  /\ pc = "returned"
  /\ plugin = "blur"
  /\ ~rgba_null /\ ~params_null
  /\ params.syntax_ok
  /\ params.radius = JNum(U32_MAX) /\ params.iterations = JNum(1)
  /\ params.weighted = JBool(TRUE)
  /\ width = 2 /\ height = 2
  /\ unwound
  /\ status = "Panic"

\* The pixels inside the image whose offset from (x, y) is within r on both axes.
Neighbourhood(x, y, w, h, r) ==
  {n \in (0..(w - 1)) \X (0..(h - 1)) :
     n[1] - x <= r /\ x - n[1] <= r /\ n[2] - y <= r /\ y - n[2] <= r}

RECURSIVE ChannelSum(_, _, _, _)
ChannelSum(S, src, w, c) ==
  IF S = {} THEN 0
  ELSE LET n == CHOOSE m \in S : TRUE
       IN ByteAt(src, w, n[1], n[2], c) + ChannelSum(S \ {n}, src, w, c)

\* One reference pass: every colour byte is the truncated mean of that channel
\* over the neighbourhood in the pass's input; alpha is the input's.
ReferencePass(src, w, h, r) ==
  Vec([o \in 1..Len(src) |->
         LET p == (o - 1) \div 4
             c == (o - 1) % 4
             N == Neighbourhood(p % w, p \div w, w, h, r)
         IN IF c = 3 THEN src[o] ELSE ChannelSum(N, src, w, c) \div Cardinality(N)])

RECURSIVE ReferenceBlur(_, _, _, _, _)
ReferenceBlur(src, w, h, r, k) ==
  IF k = 0 THEN src ELSE ReferenceBlur(ReferencePass(src, w, h, r), w, h, r, k - 1)

UniformColour(b) == \A o \in 1..Len(b) : b[o] = b[((o - 1) % 4) + 1]

\* C12: a successful box-blur call with radius r >= 1 and iterations k >= 1
\* leaves the buffer equal to the k-fold composition of the reference pass
\* (truncating sum / count over the in-image neighbours within r, read from
\* the pass's input); so a uniform-colour image is left unchanged.
C12_BoxBlurIsReferenceBlur ==
  (/\ NonNullCall
   /\ plugin = "blur"
   /\ WellFormedText("blur", params)
   /\ params.weighted = JBool(FALSE)
   /\ params.radius.n >= 1
   /\ params.iterations.n >= 1
   /\ status = "Ok")
  => /\ pixels = ReferenceBlur(orig, width, height, params.radius.n, params.iterations.n)
     /\ UniformColour(orig) => pixels = orig

C12_Witness ==
  /\ pc = "returned"
  /\ plugin = "blur"
  /\ ~rgba_null /\ ~params_null
  /\ params.syntax_ok
  /\ params.radius = JNum(1) /\ params.iterations = JNum(2) /\ params.weighted = JBool(FALSE)
  /\ width = 3 /\ height = 2
  /\ orig = gradient_image(24, 37)
  /\ status = "Ok"
  /\ pixels # orig
  /\ pixels # ReferencePass(orig, 3, 2, 1)
  /\ pixels = ReferencePass(ReferencePass(orig, 3, 2, 1), 3, 2, 1)

\* C13: in every run of the host the plugin entry point is called at most
\* once, and only after the path checks, the module load and the symbol
\* resolution have succeeded; the output image is written only after that call
\* returned the success code, and after any other code the run ends in failure
\* with no output written.
C13_CallOnceThenWriteOnSuccess ==
  /\ host.calls <= 1
  /\ host.calls >= 1 => (host.checked /\ host.loaded /\ host.resolved)
  /\ host.saved => (host.calls = 1 /\ code = Discriminant.Ok)
  /\ (pc = "exit" /\ host.calls = 1 /\ code # Discriminant.Ok) =>
        (host.result = "Err" /\ ~host.saved)

C13_Witness ==
  /\ pc = "exit"
  /\ host.checked /\ host.loaded /\ host.resolved
  /\ host.calls = 1
  /\ status = "InvalidParams" /\ code = Discriminant.InvalidParams
  /\ host.result = "Err"
  /\ ~host.saved

\* C14: for both kernels, whenever process_image returns null-pointer,
\* invalid-parameters or size-too-large, no byte of the image buffer has been
\* written: the buffer after the call equals the buffer before the call.
C14_RejectedCallLeavesBuffer ==
  (Returned /\ status \in {"NullPointer", "InvalidParams", "SizeIsTooBig"}) => pixels = orig

C14_Witness ==
  /\ pc = "returned"
  /\ plugin = "mirror"
  /\ ~rgba_null /\ ~params_null
  /\ params.syntax_ok
  /\ params.horizontal = JBool(TRUE) /\ params.vertical = JAbsent
  /\ width = 2 /\ height = 2
  /\ orig = xy_image(2, 2)
  /\ mirror_horizontal(2, 2, orig) # orig
  /\ status = "InvalidParams"
  /\ pixels = orig

====
